---- MODULE Spec2Model ----
(***************************************************************************)
(* State-machine model of clana/visualize_cm.py: the confusion-matrix      *)
(* optimizer (simulated_annealing, generate_permutation and the in-place   *)
(* transforms swap, swap_1d, move, move_1d, apply_permutation), the score  *)
(* (calculate_weight_matrix, calculate_score) and the head of main.        *)
(*                                                                         *)
(* Conventions.  A 1-D numpy array is a function on 0..n-1; a matrix is a  *)
(* function from row index to row.  Weights and scores are held in exact   *)
(* hundredths (the tie-break term is (i+j)*0.01).  Floats (temp,           *)
(* cooling_factor) are exact rationals [num, den]; the acceptance draw     *)
(* `chance` is held as -ln(chance), a rational (den = 0 stands for         *)
(* chance = 0.0), so that chance <= exp(-d/temp) is the rational           *)
(* comparison d/temp <= -ln(chance).  Rounding of IEEE doubles is not      *)
(* modelled.                                                               *)
(***************************************************************************)
EXTENDS Integers, Sequences, FiniteSets, TLC

VARIABLES
    sa,     \* frame of the simulated_annealing call under observation
    sa2,    \* frame of a second call fed the same random draws (PairSpec)
    mn,     \* frame of main
    mv      \* frame of a direct call of move / move_1d

vars == <<sa, sa2, mn, mv>>

(* ------------------------------ bounds -------------------------------- *)
MaxN == 3
MaxSteps == 3
\* largest array passed to move / move_1d directly
MaxMoveN == 4

(* ------------------------- values and helpers ------------------------- *)
\* Python's None: an optional argument left out, a local not yet bound
None == -1
NonePerm == << >>

Idx(n) == 0 .. (n - 1)

Size(a) == Cardinality(DOMAIN a)

Q(a, b) == [num |-> a, den |-> b]

RECURSIVE GCD(_, _)
GCD(a, b) == IF b = 0 THEN a ELSE GCD(b, a % b)

\* product of two non-negative rationals, in lowest terms
QMul(x, y) ==
    LET a == x.num * y.num
        b == x.den * y.den
        g == GCD(a, b)
    IN  Q(a \div g, b \div g)

\* a/b <= c/d for a, c >= 0 and b, d > 0, by comparing integer parts and
\* then the reciprocals of the fractional parts (no product is formed)
RECURSIVE QLeq(_, _, _, _)
QLeq(a, b, c, d) ==
    LET qa == a \div b
        qc == c \div d
        ra == a % b
        rc == c % d
    IN  IF qa < qc THEN TRUE
        ELSE IF qa > qc THEN FALSE
        ELSE IF ra = 0 THEN TRUE
        ELSE IF rc = 0 THEN FALSE
        ELSE QLeq(d, rc, b, ra)

RangeSeq(a, b) == [k \in 1 .. (b - a + 1) |-> a + k - 1]

RECURSIVE SortedSeq(_)
SortedSeq(S) ==
    IF S = {} THEN << >>
    ELSE LET m == CHOOSE x \in S : \A y \in S : x <= y
         IN  <<m>> \o SortedSeq(S \ {m})

SeqRange(s) == {s[k] : k \in DOMAIN s}

(* ------------------------------ scoring ------------------------------- *)
\* calculate_weight_matrix, in hundredths
calculate_weight_matrix(n) ==
    [i \in Idx(n) |-> [j \in Idx(n) |->
        IF i = j THEN 0
        ELSE 100 * (IF i > j THEN i - j ELSE j - i) + (i + j)]]

RECURSIVE SumOver(_, _)
SumOver(f, S) ==
    IF S = {} THEN 0
    ELSE LET x == CHOOSE y \in S : TRUE
         IN  f[x] + SumOver(f, S \ {x})

\* np.tensordot(cm, weights, axes=((0, 1), (0, 1))), in hundredths
tensordot(cm, weights) ==
    LET n == Size(cm)
        rowdot == [i \in Idx(n) |->
                     SumOver([j \in Idx(n) |-> cm[i][j] * weights[i][j]], Idx(n))]
    IN  SumOver(rowdot, Idx(n))

\* int(...) truncates; every term is non-negative
calculate_score(cm, weights) == tensordot(cm, weights) \div 100

(* ----------------------------- transforms ----------------------------- *)
Transpose(cm, n) == [a \in Idx(n) |-> [b \in Idx(n) |-> cm[b][a]]]

\* cm[perm].transpose()[perm].transpose()
apply_permutation(cm, perm) ==
    LET n == Size(cm)
        r1 == [a \in Idx(n) |-> cm[perm[a]]]
        t1 == Transpose(r1, n)
        r2 == [a \in Idx(n) |-> t1[perm[a]]]
    IN  Transpose(r2, n)

swap(cm, i, j) ==
    LET n == Size(cm)
        cols == [r \in Idx(n) |-> [c \in Idx(n) |->
                   IF c = i THEN cm[r][j]
                   ELSE IF c = j THEN cm[r][i]
                   ELSE cm[r][c]]]
    IN  [r \in Idx(n) |->
           IF r = i THEN cols[j]
           ELSE IF r = j THEN cols[i]
           ELSE cols[r]]

swap_1dMut(perm, i, j) == perm
swap_1d(perm, i, j) ==
    [x \in DOMAIN perm |->
        IF x = i THEN perm[j] ELSE IF x = j THEN perm[i] ELSE perm[x]]

\* the precondition test shared by move and move_1d
InsertPosError1d(from_start, from_end, insert_pos) ==
    ~(insert_pos < from_start \/ insert_pos > from_end)

InsertPosError2dMut(from_start, from_end, insert_pos) ==
    ~(insert_pos < from_start \/ insert_pos >= from_end)
InsertPosError2d(from_start, from_end, insert_pos) ==
    ~(insert_pos < from_start \/ insert_pos > from_end)

p_newMut(from_start, from_end, insert_pos) ==
    IF insert_pos > from_end
    THEN RangeSeq(from_end + 1, insert_pos) \o RangeSeq(from_start, from_end)
    ELSE RangeSeq(insert_pos, from_start - 1) \o RangeSeq(from_start, from_end)
p_new(from_start, from_end, insert_pos) ==
    IF insert_pos > from_end
    THEN RangeSeq(from_end + 1, insert_pos) \o RangeSeq(from_start, from_end)
    ELSE RangeSeq(from_start, from_end) \o RangeSeq(insert_pos, from_start - 1)

p_old(pn) == SortedSeq(SeqRange(pn))

\* a[p_old] = a[p_new]: the right-hand side is gathered first, then
\* written; a is any function on 0..n-1 (an array, or the rows of a matrix)
FancyAssign(a, po, pn) ==
    LET vals == [k \in DOMAIN pn |-> a[pn[k]]]
    IN  [x \in DOMAIN a |->
           IF \E k \in DOMAIN po : po[k] = x
           THEN vals[CHOOSE k \in DOMAIN po :
                        po[k] = x /\ \A l \in DOMAIN po : po[l] = x => l <= k]
           ELSE a[x]]

\* Outcome of a call on an array mutated in place: whether ValueError was
\* raised, and the array as the call left it
Outcome(raised, arr) == [raised |-> raised, arr |-> arr]

move_1d(perm, from_start, from_end, insert_pos) ==
    IF InsertPosError1d(from_start, from_end, insert_pos)
    THEN Outcome(TRUE, perm)
    ELSE LET pn == p_new(from_start, from_end, insert_pos)
         IN  Outcome(FALSE, FancyAssign(perm, p_old(pn), pn))

move(cm, from_start, from_end, insert_pos) ==
    IF InsertPosError2d(from_start, from_end, insert_pos)
    THEN Outcome(TRUE, cm)
    ELSE LET pn == p_new(from_start, from_end, insert_pos)
             po == p_old(pn)
             cols == [r \in DOMAIN cm |-> FancyAssign(cm[r], po, pn)]
         IN  Outcome(FALSE, FancyAssign(cols, po, pn))

(* --------------------------- input families --------------------------- *)
\* np.arange(n*m).reshape(n, m): the doctest matrix for n = m = 3
Arange(n, m) == [i \in Idx(n) |-> [j \in Idx(m) |-> i * m + j]]

\* all mass on the diagonal
Diag(n) == [i \in Idx(n) |-> [j \in Idx(n) |-> IF i = j THEN i + 1 ELSE 0]]

\* mass above the diagonal only: last row and first column are empty
Upper(n) == [i \in Idx(n) |-> [j \in Idx(n) |-> IF i < j THEN 1 ELSE 0]]

Matrices(n) == {Arange(n, n), Diag(n), Upper(n)}

Identity(n) == [x \in Idx(n) |-> x]

Rotation(n) == [x \in Idx(n) |-> (x + 1) % n]

\* the current_perm argument: left out, or a permutation of 0..n-1
StartPerms(n) == {NonePerm, Rotation(n)}

StepBudgets == 0 .. MaxSteps

\* temp argument: two invalid values, two valid ones (100.0 is the default)
Temps == {Q(-1, 1), Q(0, 1), Q(1, 1), Q(100, 1)}

\* cooling_factor argument: 0, the default 0.99, 1
CoolingFactors == {Q(0, 1), Q(99, 100), Q(1, 1)}

\* cooling_factor arguments of two calls compared with each other
PairCoolingFactors == {Q(1, 2), Q(99, 100)}

\* random.random() at line 426, held as -ln(chance): chance = e^-1/100,
\* e^-1/10, e^-1 and 0.0
ChanceDraws == {Q(1, 100), Q(1, 10), Q(1, 1), Q(1, 0)}

\* chance = 1.0 (line 424): -ln(1.0) = 0
ChanceOne == Q(0, 1)

\* the literal 0.99 of line 427
DecayFactor == Q(99, 100)

(* ------------------------- simulated_annealing ------------------------- *)
IdleFrame == [pc |-> "idle"]

\* the frame at the call: arguments bound, locals unbound
CallFrame(cm, perm, steps, temp, cooling_factor, deterministic) ==
    [pc |-> "call",
     cm |-> cm,                 \* the caller's matrix (never written)
     perm |-> perm,             \* the caller's current_perm argument
     current_cm |-> cm,
     current_perm |-> perm,
     steps |-> steps,
     temp |-> temp,
     cooling_factor |-> cooling_factor,
     deterministic |-> deterministic,
     n |-> None,
     current_score |-> None,
     best_cm |-> << >>,
     best_perm |-> NonePerm,
     best_score |-> None,
     step |-> 0,
     make_swap |-> FALSE,
     i |-> None, j |-> None,
     block_len |-> None,
     from_start |-> None, from_end |-> None, insert_pos |-> None,
     rng_used |-> FALSE]

\* lines 390-396
ValidationErrorMut(temp, cooling_factor) ==
    IF temp.num <= 0 THEN "raised_temp"
    ELSE IF cooling_factor.num <= 0 THEN "raised_cooling_factor"
         ELSE "ok"
ValidationError(temp, cooling_factor) ==
    IF temp.num <= 0 THEN "raised_temp"
    ELSE IF cooling_factor.num <= 0 \/ cooling_factor.num >= cooling_factor.den
         THEN "raised_cooling_factor"
         ELSE "ok"

\* lines 397-414
Setup(s) ==
    LET n == Size(s.current_cm)
        perm == IF s.current_perm = NonePerm THEN Identity(n) ELSE s.current_perm
        weights == calculate_weight_matrix(n)
        cm1 == apply_permutation(s.current_cm, perm)
        score == calculate_score(cm1, weights)
    IN  [s EXCEPT !.pc = "for", !.n = n,
                  !.current_perm = perm, !.current_cm = cm1,
                  !.current_score = score,
                  !.best_cm = cm1, !.best_score = score, !.best_perm = perm]

\* lines 390-416: validation, then initialisation
Call(s) ==
    LET v == ValidationError(s.temp, s.cooling_factor)
    IN  IF v = "ok" THEN Setup(s) ELSE [s EXCEPT !.pc = v]

\* line 427
NextTempMut(s) == QMul(s.temp, s.cooling_factor)
NextTemp(s) == QMul(s.temp, DecayFactor)

\* lines 428-429: chance <= min(1, exp(-diff / temp)), chance as -ln(chance)
AcceptsMut(chance, diff, temp) == TRUE
Accepts(chance, diff, temp) ==
    IF diff <= 0 THEN TRUE
    ELSE IF chance.den = 0 THEN TRUE
    ELSE IF chance.num = 0 THEN FALSE
    ELSE QLeq(diff * chance.den, chance.num, temp.num, temp.den)

\* line 431
ImprovesMut(best_score, tmp_score) == best_score >= tmp_score
Improves(best_score, tmp_score) == best_score > tmp_score

\* lines 430-438
AcceptedMut(s, perm, tmp_cm, tmp_score) ==
    [s EXCEPT !.current_score = tmp_score, !.current_cm = tmp_cm,
              !.current_perm = perm]
Accepted(s, perm, tmp_cm, tmp_score) ==
    LET b == IF Improves(s.best_score, tmp_score)
             THEN [s EXCEPT !.best_perm = perm, !.best_cm = tmp_cm,
                            !.best_score = tmp_score]
             ELSE s
    IN  [b EXCEPT !.current_score = tmp_score, !.current_cm = tmp_cm,
                  !.current_perm = perm]

\* generate_permutation has returned: its locals are gone
DropLocals(s) ==
    [s EXCEPT !.i = None, !.j = None, !.block_len = None,
              !.from_start = None, !.from_end = None, !.insert_pos = None]

\* lines 420-438 and the step increment of line 417
Decide(s, perm, tmp_cm, chance_draw) ==
    LET tmp_score == calculate_score(tmp_cm, calculate_weight_matrix(s.n))
        chance == IF s.deterministic THEN ChanceOne ELSE chance_draw
        temp == IF s.deterministic THEN s.temp ELSE NextTemp(s)
        s1 == [s EXCEPT !.temp = temp, !.step = @ + 1, !.pc = "for",
                        !.rng_used = TRUE]
    IN  DropLocals(IF Accepts(chance, tmp_score - s.current_score, temp)
                   THEN Accepted(s1, perm, tmp_cm, tmp_score)
                   ELSE s1)

\* line 451
Result(s) == [cm |-> s.best_cm, perm |-> s.best_perm]

(* ------------------------- generate_permutation ------------------------ *)
\* lines 470-475: random.random() < swap_prob, forced for n < 3
MakeSwap(n, draw) == IF n < 3 THEN TRUE ELSE draw

\* line 489
FromStartChoices(n) == 0 .. (n - 3)

\* line 490
FromEndChoicesMut(n, from_start) == from_start .. (n - 1)
FromEndChoices(n, from_start) == (from_start + 1) .. (n - 2)

\* line 488
BlockLoopCond(n, block_len) == block_len >= n - 1

\* line 493
InsertLoopCond(from_start, from_end, insert_pos) ==
    ~(insert_pos < from_start \/ insert_pos > from_end)

\* lines 417-419 and 470-478 / 487: a new iteration enters generate_permutation
ForNext(s, swap_draw, i_draw) ==
    IF MakeSwap(s.n, swap_draw)
    THEN [s EXCEPT !.pc = "while_j", !.make_swap = TRUE, !.rng_used = TRUE,
                   !.i = i_draw, !.j = i_draw]
    ELSE [s EXCEPT !.pc = "while_block", !.make_swap = FALSE, !.rng_used = TRUE,
                   !.block_len = s.n]

\* line 480
WhileJBody(s, j_draw) == [s EXCEPT !.j = j_draw]

\* lines 482-484, then 420-438
WhileJExit(s, chance_draw) ==
    Decide(s, swap_1d(s.current_perm, s.i, s.j),
              swap(s.current_cm, s.i, s.j), chance_draw)

\* lines 489-491
WhileBlockBody(s, fs_draw, fe_draw) ==
    [s EXCEPT !.from_start = fs_draw, !.from_end = fe_draw,
              !.block_len = fs_draw - fe_draw]

\* line 492
WhileBlockExit(s) == [s EXCEPT !.pc = "while_insert", !.insert_pos = s.from_start]

\* line 494
WhileInsertBody(s, ip_draw) == [s EXCEPT !.insert_pos = ip_draw]

\* lines 495-498, then 420-438
WhileInsertExit(s, chance_draw) ==
    LET p == move_1d(s.current_perm, s.from_start, s.from_end, s.insert_pos)
        m == move(s.current_cm, s.from_start, s.from_end, s.insert_pos)
    IN  IF p.raised \/ m.raised
        THEN [s EXCEPT !.pc = "raised_insert_pos"]
        ELSE Decide(s, p.arr, m.arr, chance_draw)

(* -------------------------------- main --------------------------------- *)
\* the frame of main after lines 57-59: cm, perm and labels have been read;
\* labels is held by its length
MainFrame(cm, perm, labels, steps) ==
    [pc |-> "start", cm |-> cm, perm |-> perm, labels |-> labels,
     steps |-> steps, warned |-> FALSE, stored |-> NonePerm]

\* cm.shape
Rows(cm) == Size(cm)
Cols(cm) == Size(cm[0])

\* line 61
NotSquareMut(cm) == Rows(cm) > Cols(cm)
NotSquare(cm) == Rows(cm) # Cols(cm)

\* line 65
LabelsWarning(cm, labels) == labels - 1 # Rows(cm)

\* get_cm_problems: labels[i] is read for every class i whose row (or, after
\* the transpose, column) sums to zero; IndexError when i >= len(labels)
get_cm_problems_raises(cm, labels) ==
    LET n == Rows(cm)
    IN  \E i \in Idx(n) :
           /\ i >= labels
           /\ \/ SumOver(cm[i], Idx(n)) = 0
              \/ SumOver([r \in Idx(n) |-> cm[r][i]], Idx(n)) = 0

\* temp and cooling_factor defaults of simulated_annealing (lines 368-369)
DefaultTemp == Q(100, 1)
DefaultCoolingFactor == Q(99, 100)

\* lines 60-80, up to the call of simulated_annealing
MainStart(m) ==
    IF NotSquare(m.cm) THEN [m EXCEPT !.pc = "raised_not_square"]
    ELSE LET w == [m EXCEPT !.warned = LabelsWarning(m.cm, m.labels)]
         IN  IF get_cm_problems_raises(m.cm, m.labels)
             THEN [w EXCEPT !.pc = "raised_index_error"]
             ELSE [w EXCEPT !.pc = "annealing"]

\* line 78-80
MainCall(m) == CallFrame(m.cm, m.perm, m.steps, DefaultTemp,
                         DefaultCoolingFactor, TRUE)

\* lines 81-83
MainStore(m, result) == [m EXCEPT !.pc = "stored", !.stored = result.perm]

(* -------------------------- direct transform calls --------------------- *)
MoveFrame(fn, arr, from_start, from_end, insert_pos) ==
    [pc |-> "call", fn |-> fn, arr |-> arr, arg |-> arr,
     from_start |-> from_start, from_end |-> from_end,
     insert_pos |-> insert_pos]

MoveReturn(f, out) ==
    [f EXCEPT !.pc = IF out.raised THEN "raised" ELSE "returned",
              !.arr = out.arr]

(* ------------------------------- actions ------------------------------- *)
Running(s) == s.pc \in {"for", "while_j", "while_block", "while_insert"}

AtFor(s) == s.pc = "for" /\ s.step < s.steps
AtReturn(s) == s.pc = "for" /\ ~(s.step < s.steps)
AtWhileJ(s) == s.pc = "while_j" /\ s.j = s.i
AtWhileJEnd(s) == s.pc = "while_j" /\ ~(s.j = s.i)
AtWhileBlock(s) == s.pc = "while_block" /\ BlockLoopCond(s.n, s.block_len)
AtWhileBlockEnd(s) == s.pc = "while_block" /\ ~BlockLoopCond(s.n, s.block_len)
AtWhileInsert(s) ==
    s.pc = "while_insert" /\ InsertLoopCond(s.from_start, s.from_end, s.insert_pos)
AtWhileInsertEnd(s) ==
    s.pc = "while_insert" /\ ~InsertLoopCond(s.from_start, s.from_end, s.insert_pos)

SA_Call ==
    /\ sa.pc = "call"
    /\ sa' = Call(sa)
    /\ UNCHANGED <<sa2, mn, mv>>

SA_ForNext ==
    /\ AtFor(sa)
    /\ \E swap_draw \in BOOLEAN, i_draw \in Idx(sa.n) :
          sa' = ForNext(sa, swap_draw, i_draw)
    /\ UNCHANGED <<sa2, mn, mv>>

SA_Return ==
    /\ AtReturn(sa)
    /\ sa' = [sa EXCEPT !.pc = "returned"]
    /\ UNCHANGED <<sa2, mn, mv>>

SA_WhileJBody ==
    /\ AtWhileJ(sa)
    /\ \E j_draw \in Idx(sa.n) : sa' = WhileJBody(sa, j_draw)
    /\ UNCHANGED <<sa2, mn, mv>>

SA_WhileJExit ==
    /\ AtWhileJEnd(sa)
    /\ \E chance_draw \in ChanceDraws : sa' = WhileJExit(sa, chance_draw)
    /\ UNCHANGED <<sa2, mn, mv>>

SA_WhileBlockBody ==
    /\ AtWhileBlock(sa)
    /\ \E fs_draw \in FromStartChoices(sa.n) :
          \E fe_draw \in FromEndChoices(sa.n, fs_draw) :
             sa' = WhileBlockBody(sa, fs_draw, fe_draw)
    /\ UNCHANGED <<sa2, mn, mv>>

SA_WhileBlockExit ==
    /\ AtWhileBlockEnd(sa)
    /\ sa' = WhileBlockExit(sa)
    /\ UNCHANGED <<sa2, mn, mv>>

SA_WhileInsertBody ==
    /\ AtWhileInsert(sa)
    /\ \E ip_draw \in Idx(sa.n) : sa' = WhileInsertBody(sa, ip_draw)
    /\ UNCHANGED <<sa2, mn, mv>>

SA_WhileInsertExit ==
    /\ AtWhileInsertEnd(sa)
    /\ \E chance_draw \in ChanceDraws : sa' = WhileInsertExit(sa, chance_draw)
    /\ UNCHANGED <<sa2, mn, mv>>

Main_Start ==
    /\ mn.pc = "start"
    /\ mn' = MainStart(mn)
    /\ sa' = IF mn'.pc = "annealing" THEN MainCall(mn) ELSE sa
    /\ UNCHANGED <<sa2, mv>>

Main_Store ==
    /\ mn.pc = "annealing"
    /\ sa.pc = "returned"
    /\ mn' = MainStore(mn, Result(sa))
    /\ UNCHANGED <<sa, sa2, mv>>

SANext ==
    \/ SA_Call
    \/ SA_ForNext
    \/ SA_Return
    \/ SA_WhileJBody
    \/ SA_WhileJExit
    \/ SA_WhileBlockBody
    \/ SA_WhileBlockExit
    \/ SA_WhileInsertBody
    \/ SA_WhileInsertExit

Next == SANext \/ Main_Start \/ Main_Store

\* a direct call of simulated_annealing
InitSA ==
    /\ \E n \in 1 .. MaxN :
          \E cm \in Matrices(n), perm \in StartPerms(n), steps \in StepBudgets,
             temp \in Temps, cooling_factor \in CoolingFactors,
             deterministic \in BOOLEAN :
             sa = CallFrame(cm, perm, steps, temp, cooling_factor, deterministic)
    /\ mn = IdleFrame

\* a run of main
InitMain ==
    /\ \E n \in 1 .. MaxN, m \in 1 .. MaxN :
          \E cm \in (IF n = m THEN Matrices(n) ELSE {Arange(n, m)}),
             perm \in StartPerms(n), labels \in {n - 1, n, n + 1},
             steps \in StepBudgets :
             mn = MainFrame(cm, perm, labels, steps)
    /\ sa = IdleFrame

Init ==
    /\ InitSA \/ InitMain
    /\ sa2 = IdleFrame
    /\ mv = IdleFrame

Spec == Init /\ [][Next]_vars

(* ------------------- two calls fed the same random draws --------------- *)
Pair_Call ==
    /\ sa.pc = "call" /\ sa2.pc = "call"
    /\ sa' = Call(sa) /\ sa2' = Call(sa2)
    /\ UNCHANGED <<mn, mv>>

Pair_ForNext ==
    /\ AtFor(sa) /\ AtFor(sa2)
    /\ \E swap_draw \in BOOLEAN, i_draw \in Idx(sa.n) :
          /\ sa' = ForNext(sa, swap_draw, i_draw)
          /\ sa2' = ForNext(sa2, swap_draw, i_draw)
    /\ UNCHANGED <<mn, mv>>

Pair_Return ==
    /\ AtReturn(sa) /\ AtReturn(sa2)
    /\ sa' = [sa EXCEPT !.pc = "returned"]
    /\ sa2' = [sa2 EXCEPT !.pc = "returned"]
    /\ UNCHANGED <<mn, mv>>

Pair_WhileJBody ==
    /\ AtWhileJ(sa) /\ AtWhileJ(sa2)
    /\ \E j_draw \in Idx(sa.n) :
          sa' = WhileJBody(sa, j_draw) /\ sa2' = WhileJBody(sa2, j_draw)
    /\ UNCHANGED <<mn, mv>>

Pair_WhileJExit ==
    /\ AtWhileJEnd(sa) /\ AtWhileJEnd(sa2)
    /\ \E chance_draw \in ChanceDraws :
          sa' = WhileJExit(sa, chance_draw) /\ sa2' = WhileJExit(sa2, chance_draw)
    /\ UNCHANGED <<mn, mv>>

Pair_WhileBlockBody ==
    /\ AtWhileBlock(sa) /\ AtWhileBlock(sa2)
    /\ \E fs_draw \in FromStartChoices(sa.n) :
          \E fe_draw \in FromEndChoices(sa.n, fs_draw) :
             /\ sa' = WhileBlockBody(sa, fs_draw, fe_draw)
             /\ sa2' = WhileBlockBody(sa2, fs_draw, fe_draw)
    /\ UNCHANGED <<mn, mv>>

Pair_WhileBlockExit ==
    /\ AtWhileBlockEnd(sa) /\ AtWhileBlockEnd(sa2)
    /\ sa' = WhileBlockExit(sa) /\ sa2' = WhileBlockExit(sa2)
    /\ UNCHANGED <<mn, mv>>

Pair_WhileInsertBody ==
    /\ AtWhileInsert(sa) /\ AtWhileInsert(sa2)
    /\ \E ip_draw \in Idx(sa.n) :
          sa' = WhileInsertBody(sa, ip_draw) /\ sa2' = WhileInsertBody(sa2, ip_draw)
    /\ UNCHANGED <<mn, mv>>

Pair_WhileInsertExit ==
    /\ AtWhileInsertEnd(sa) /\ AtWhileInsertEnd(sa2)
    /\ \E chance_draw \in ChanceDraws :
          /\ sa' = WhileInsertExit(sa, chance_draw)
          /\ sa2' = WhileInsertExit(sa2, chance_draw)
    /\ UNCHANGED <<mn, mv>>

PairNext ==
    \/ Pair_Call
    \/ Pair_ForNext
    \/ Pair_Return
    \/ Pair_WhileJBody
    \/ Pair_WhileJExit
    \/ Pair_WhileBlockBody
    \/ Pair_WhileBlockExit
    \/ Pair_WhileInsertBody
    \/ Pair_WhileInsertExit

\* two calls with the same arguments except cooling_factor (the smaller
\* one in sa: the two calls are interchangeable)
PairInit ==
    /\ \E n \in 1 .. MaxN :
          \E cm \in Matrices(n), perm \in StartPerms(n), steps \in StepBudgets,
             temp \in Temps, deterministic \in BOOLEAN,
             c1 \in PairCoolingFactors, c2 \in PairCoolingFactors :
             /\ c1.num * c2.den < c2.num * c1.den
             /\ sa = CallFrame(cm, perm, steps, temp, c1, deterministic)
             /\ sa2 = CallFrame(cm, perm, steps, temp, c2, deterministic)
    /\ mn = IdleFrame
    /\ mv = IdleFrame

PairSpec == PairInit /\ [][PairNext]_vars

(* --------------------- direct calls of move / move_1d ------------------ *)
Mv_Move1d ==
    /\ mv.pc = "call" /\ mv.fn = "move_1d"
    /\ mv' = MoveReturn(mv, move_1d(mv.arr, mv.from_start, mv.from_end,
                                    mv.insert_pos))
    /\ UNCHANGED <<sa, sa2, mn>>

Mv_Move ==
    /\ mv.pc = "call" /\ mv.fn = "move"
    /\ mv' = MoveReturn(mv, move(mv.arr, mv.from_start, mv.from_end,
                                 mv.insert_pos))
    /\ UNCHANGED <<sa, sa2, mn>>

MoveNext == Mv_Move1d \/ Mv_Move

MoveInit ==
    /\ \E n \in 1 .. MaxMoveN :
          \E from_start \in Idx(n), from_end \in Idx(n), insert_pos \in Idx(n) :
             \/ \E perm \in {Identity(n), Rotation(n)} :
                   mv = MoveFrame("move_1d", perm, from_start, from_end, insert_pos)
             \/ mv = MoveFrame("move", Arange(n, n), from_start, from_end,
                               insert_pos)
    /\ sa = IdleFrame
    /\ sa2 = IdleFrame
    /\ mn = IdleFrame

SpecMove == MoveInit /\ [][MoveNext]_vars

(* ------------------------------ fairness ------------------------------- *)
\* calls of simulated_annealing that pass validation
FairInit ==
    /\ \E n \in 1 .. MaxN :
          \E cm \in Matrices(n), perm \in StartPerms(n), steps \in StepBudgets,
             temp \in Temps, cooling_factor \in CoolingFactors,
             deterministic \in BOOLEAN :
             /\ ValidationError(temp, cooling_factor) = "ok"
             /\ sa = CallFrame(cm, perm, steps, temp, cooling_factor, deterministic)
    /\ sa2 = IdleFrame
    /\ mn = IdleFrame
    /\ mv = IdleFrame

\* The interpreter keeps executing: no enabled step is postponed for ever
\* (for the two loop exits, which are the only steps enabled where they
\* are enabled, this is "the run is not at the exit for ever").  Every
\* randint draw is uniform and independent of the earlier ones, so a
\* resampling loop that has an exit value draws it eventually.
Fairness ==
    /\ WF_vars(SA_Call)
    /\ WF_vars(SA_ForNext)
    /\ WF_vars(SA_Return)
    /\ WF_vars(SA_WhileJBody /\ ~AtWhileJ(sa'))
    /\ []<>~AtWhileJEnd(sa)
    /\ WF_vars(SA_WhileBlockBody)
    /\ WF_vars(SA_WhileBlockExit)
    /\ WF_vars(SA_WhileInsertBody /\ ~AtWhileInsert(sa'))
    /\ []<>~AtWhileInsertEnd(sa)

FairSpec == FairInit /\ [][SANext]_vars /\ Fairness

(* ------------------------------ properties ----------------------------- *)
IsPermutation(perm, n) ==
    /\ DOMAIN perm = Idx(n)
    /\ {perm[x] : x \in Idx(n)} = Idx(n)

IsDiagonal(cm) ==
    \A a \in DOMAIN cm : \A b \in DOMAIN cm[a] : a # b => cm[a][b] = 0

Initialised(s) == Running(s) \/ s.pc = "returned"

RECURSIVE TempAfter(_, _)
TempAfter(temp, k) ==
    IF k = 0 THEN temp ELSE QMul(TempAfter(temp, k - 1), DecayFactor)

\* C1: every call of simulated_annealing with valid temp and cooling_factor
\* (n >= 1, any step budget, either mode) eventually returns, having performed
\* exactly `steps` iterations.
C1_AlwaysReturns == <>(sa.pc = "returned" /\ sa.step = sa.steps)

\* C2: once initialised, current_perm and best_perm are permutations of
\* 0..n-1, current_cm is the caller's matrix under current_perm and best_cm
\* is the caller's matrix under best_perm; so is the returned result.
C2_LockStep ==
    Initialised(sa) =>
        /\ IsPermutation(sa.current_perm, sa.n)
        /\ IsPermutation(sa.best_perm, sa.n)
        /\ sa.current_cm = apply_permutation(sa.cm, sa.current_perm)
        /\ sa.best_cm = apply_permutation(sa.cm, sa.best_perm)
        /\ Result(sa).cm = apply_permutation(sa.cm, Result(sa).perm)

C2_Witness ==
    /\ sa.pc = "returned"
    /\ sa.cm = Arange(3, 3)
    /\ sa.step >= 2
    /\ ~sa.make_swap
    /\ sa.best_perm # Identity(3)
    /\ sa.current_perm # sa.best_perm

\* C3: once initialised, best_score <= current_score, in both modes.
C3_BestLeqCurrent ==
    Initialised(sa) => sa.best_score <= sa.current_score

C3_Witness ==
    /\ sa.pc = "for"
    /\ ~sa.deterministic
    /\ sa.step >= 2
    /\ sa.best_score < sa.current_score
    /\ sa.best_perm # (IF sa.perm = NonePerm THEN Identity(sa.n) ELSE sa.perm)

\* C4 (step relation): with deterministic=True, a step that ends an iteration makes the
\* candidate the current state if and only if its score is <= current_score,
\* and no step increases current_score or best_score.
C4_GreedyStep ==
    LET swapped == swap_1d(sa.current_perm, sa.i, sa.j)
        swapped_score == calculate_score(swap(sa.current_cm, sa.i, sa.j),
                                         calculate_weight_matrix(sa.n))
        moved == move_1d(sa.current_perm, sa.from_start, sa.from_end,
                         sa.insert_pos).arr
        moved_score == calculate_score(
                          move(sa.current_cm, sa.from_start, sa.from_end,
                               sa.insert_pos).arr,
                          calculate_weight_matrix(sa.n))
    IN  /\ Running(sa) /\ Initialised(sa') /\ sa.deterministic =>
            /\ sa'.current_score <= sa.current_score
            /\ sa'.best_score <= sa.best_score
        /\ AtWhileJEnd(sa) /\ sa'.pc = "for" /\ sa.deterministic =>
            (sa'.current_perm = swapped <=> swapped_score <= sa.current_score)
        /\ AtWhileInsertEnd(sa) /\ sa'.pc = "for" /\ sa.deterministic =>
            (sa'.current_perm = moved <=> moved_score <= sa.current_score)

\* C4: every step of a deterministic run is a greedy step (the step
\* relation above holds of every transition).
C4_Greedy == [][C4_GreedyStep]_vars

C4_Witness ==
    /\ sa.pc = "returned"
    /\ sa.deterministic
    /\ sa.cm = Arange(3, 3)
    /\ sa.perm = NonePerm
    /\ sa.step >= 2
    /\ sa.current_score < calculate_score(sa.cm, calculate_weight_matrix(3))

\* C5: a matrix with all mass on the diagonal, run from the default identity
\* permutation, returns the identity permutation, the input matrix and the
\* initial score, whatever the step budget and the draws.
C5_FixedPoint ==
    (sa.pc = "returned" /\ IsDiagonal(sa.cm) /\ sa.perm = NonePerm) =>
        /\ Result(sa).perm = Identity(sa.n)
        /\ Result(sa).cm = sa.cm
        /\ sa.best_score = calculate_score(sa.cm, calculate_weight_matrix(sa.n))

C5_Witness ==
    /\ sa.pc = "returned"
    /\ sa.cm = Diag(3)
    /\ sa.perm = NonePerm
    /\ sa.step >= 2
    /\ sa.current_perm # Identity(3)

\* C6: temp <= 0 raises the temperature error; otherwise cooling_factor
\* outside (0, 1) raises the cooling-factor error; and when either is
\* raised no iteration has run, no random number has been drawn and no
\* current/best state exists.
C6_RejectsInvalid ==
    (sa.pc # "idle" /\ sa.pc # "call") =>
        /\ sa.temp.num <= 0 => sa.pc = "raised_temp"
        /\ (sa.temp.num > 0 /\ (sa.cooling_factor.num <= 0
               \/ sa.cooling_factor.num >= sa.cooling_factor.den))
              => sa.pc = "raised_cooling_factor"
        /\ sa.pc \in {"raised_temp", "raised_cooling_factor"} =>
              /\ sa.step = 0
              /\ ~sa.rng_used
              /\ sa.n = None
              /\ sa.current_score = None
              /\ sa.best_score = None
              /\ sa.best_perm = NonePerm
              /\ sa.best_cm = << >>
              /\ sa.current_cm = sa.cm
              /\ sa.current_perm = sa.perm

C6_Witness ==
    /\ sa.pc = "raised_cooling_factor"
    /\ sa.cooling_factor = Q(1, 1)
    /\ sa.steps >= 1

\* C7 (as claimed): in main, a non-square matrix and a label list whose
\* length differs from n both abort the run: simulated_annealing is not
\* called and no permutation is stored.
C7_BothAbort ==
    (mn.pc \notin {"idle", "start"}
        /\ (Rows(mn.cm) # Cols(mn.cm) \/ mn.labels # Rows(mn.cm))) =>
        /\ mn.pc \notin {"annealing", "stored"}
        /\ sa.pc = "idle"
        /\ mn.stored = NonePerm

\* C7 (amended): in main, a non-square matrix aborts the run before
\* simulated_annealing is called or a permutation stored; a label list whose
\* length differs from n does not: for a square matrix main goes on to
\* simulated_annealing (and prints the message exactly when
\* len(labels) - 1 != n), unless get_cm_problems fails on a missing label.
C7_OnlyNonSquareAborts ==
    (mn.pc \notin {"idle", "start"}) =>
        /\ Rows(mn.cm) # Cols(mn.cm) =>
              /\ mn.pc = "raised_not_square"
              /\ sa.pc = "idle"
              /\ mn.stored = NonePerm
        /\ Rows(mn.cm) = Cols(mn.cm) =>
              /\ mn.pc # "raised_not_square"
              /\ mn.warned <=> (mn.labels - 1 # Rows(mn.cm))
              /\ ~get_cm_problems_raises(mn.cm, mn.labels) =>
                    (mn.pc \in {"annealing", "stored"} /\ sa.pc # "idle")

C7_Witness ==
    /\ mn.pc = "stored"
    /\ mn.labels # Rows(mn.cm)
    /\ Rows(mn.cm) = 3
    /\ mn.steps >= 1

\* C8: generate_permutation builds only well-formed moves: a swap has
\* 0 <= i, j < n and is applied with i # j; a block move is built only for
\* n >= 3, with 0 <= from_start < from_end <= n-2 and 0 <= insert_pos < n,
\* and is applied with insert_pos outside the block; move / move_1d never
\* raise inside the loop.
C8_WellFormedMoves ==
    /\ sa.pc # "raised_insert_pos"
    /\ sa.pc = "while_j" =>
          /\ sa.make_swap
          /\ sa.i \in Idx(sa.n) /\ sa.j \in Idx(sa.n)
          /\ AtWhileJEnd(sa) => sa.i # sa.j
    /\ sa.pc \in {"while_block", "while_insert"} => (sa.n >= 3 /\ ~sa.make_swap)
    /\ (sa.pc = "while_block" /\ ~BlockLoopCond(sa.n, sa.block_len)) \/ sa.pc = "while_insert" =>
          /\ 0 <= sa.from_start /\ sa.from_start < sa.from_end
          /\ sa.from_end <= sa.n - 2
    /\ sa.pc = "while_insert" =>
          /\ sa.insert_pos \in Idx(sa.n)
          /\ AtWhileInsertEnd(sa) =>
                (sa.insert_pos < sa.from_start \/ sa.insert_pos > sa.from_end)

C8_Witness ==
    /\ AtWhileInsertEnd(sa)
    /\ sa.n = 3
    /\ sa.step >= 1
    /\ sa.insert_pos > sa.from_end

\* C9: move and move_1d raise whenever from_start <= insert_pos <= from_end,
\* and then leave the array they were given as it was.
C9_InsertPosError ==
    (mv.pc \in {"raised", "returned"}
        /\ mv.from_start <= mv.insert_pos /\ mv.insert_pos <= mv.from_end) =>
        /\ mv.pc = "raised"
        /\ mv.arr = mv.arg

C9_Witness ==
    /\ mv.pc = "raised"
    /\ mv.fn = "move"
    /\ mv.from_start < mv.from_end
    /\ mv.insert_pos = mv.from_end

\* C10: two calls that differ only in cooling_factor (both in (0, 1)) and
\* take the same draws agree at every point on everything but the stored
\* cooling_factor, and the temperature after k completed iterations is the
\* temp argument times 0.99^k (non-deterministic mode) or the temp argument
\* itself (deterministic mode).
C10_CoolingFactorUnused ==
    /\ sa2 = [sa EXCEPT !.cooling_factor = sa2.cooling_factor]
    /\ Initialised(sa) =>
          /\ \E temp \in Temps :
                sa.temp = TempAfter(temp, IF sa.deterministic THEN 0 ELSE sa.step)
          /\ Result(sa) = Result(sa2)

C10_Witness ==
    /\ sa.pc = "returned" /\ sa2.pc = "returned"
    /\ ~sa.deterministic
    /\ sa.cooling_factor # sa2.cooling_factor
    /\ sa.cm = Arange(3, 3)
    /\ sa.step >= 2
    /\ sa.best_perm # sa.current_perm
    /\ sa.best_score < calculate_score(sa.cm, calculate_weight_matrix(3))

\* the index a block relocation reads position x from: the block
\* [from_start, from_end] ends at insert_pos (insert_pos > from_end) or
\* starts at insert_pos (insert_pos < from_start), the run between block
\* and insert_pos slides over by the block's length, the rest stays
RelocatedFrom(from_start, from_end, insert_pos, x) ==
    LET len == from_end - from_start + 1
    IN  IF insert_pos > from_end
        THEN IF x < from_start \/ x > insert_pos THEN x
             ELSE IF x <= insert_pos - len THEN x + len
             ELSE x - (insert_pos - from_end)
        ELSE IF x < insert_pos \/ x > from_end THEN x
             ELSE IF x < insert_pos + len THEN x + (from_start - insert_pos)
             ELSE x - len

\* a call with a non-empty block and insert_pos outside it has returned
Relocated(f) ==
    /\ f.pc = "returned"
    /\ f.from_start <= f.from_end
    /\ (f.insert_pos < f.from_start \/ f.insert_pos > f.from_end)

\* C11: for from_start <= from_end and insert_pos outside the block (all
\* three in range), move_1d returns normally and relocates the block: the
\* result holds each value as often as the input did; the block's elements
\* sit contiguously in their original order, ending at insert_pos when
\* insert_pos > from_end and starting at insert_pos when insert_pos <
\* from_start; the elements between block and insert_pos keep their order
\* and slide over by the block's length; every position outside
\* min(from_start, insert_pos) .. max(from_end, insert_pos) is unchanged.
\* move reads row r, column c of its result from row RelocatedFrom(r),
\* column RelocatedFrom(c) of its input: the same mapping on both axes.
C11_BlockRelocation ==
    /\ (mv.pc \in {"raised", "returned"} /\ mv.from_start <= mv.from_end
            /\ (mv.insert_pos < mv.from_start \/ mv.insert_pos > mv.from_end))
          => mv.pc = "returned"
    /\ (Relocated(mv) /\ mv.fn = "move_1d") =>
          LET a == mv.arg
              out == mv.arr
              fs == mv.from_start
              fe == mv.from_end
              ip == mv.insert_pos
              len == fe - fs + 1
              lo == IF ip < fs THEN ip ELSE fs
              hi == IF ip > fe THEN ip ELSE fe
          IN  /\ DOMAIN out = DOMAIN a
              /\ \A x \in DOMAIN a :
                    Cardinality({y \in DOMAIN out : out[y] = a[x]})
                       = Cardinality({y \in DOMAIN a : a[y] = a[x]})
              /\ \A k \in 0 .. (len - 1) :
                    IF ip > fe THEN out[ip - len + 1 + k] = a[fs + k]
                    ELSE out[ip + k] = a[fs + k]
              /\ IF ip > fe
                 THEN \A k \in 0 .. (ip - fe - 1) : out[fs + k] = a[fe + 1 + k]
                 ELSE \A k \in 0 .. (fs - ip - 1) : out[ip + len + k] = a[ip + k]
              /\ \A x \in DOMAIN a : (x < lo \/ x > hi) => out[x] = a[x]
              /\ out = [x \in DOMAIN a |-> a[RelocatedFrom(fs, fe, ip, x)]]
    /\ (Relocated(mv) /\ mv.fn = "move") =>
          mv.arr = [r \in DOMAIN mv.arg |-> [c \in DOMAIN mv.arg[r] |->
                      mv.arg[RelocatedFrom(mv.from_start, mv.from_end,
                                           mv.insert_pos, r)]
                            [RelocatedFrom(mv.from_start, mv.from_end,
                                           mv.insert_pos, c)]]]

\* a two-row block of a 4x4 matrix moved past two rows to the front
C11_Witness ==
    /\ Relocated(mv)
    /\ mv.fn = "move"
    /\ mv.from_start = 2 /\ mv.from_end = 3 /\ mv.insert_pos = 0
    /\ mv.arr # mv.arg
    /\ mv.arr[0][0] = mv.arg[2][2]
    /\ mv.arr[2][1] = mv.arg[0][3]

====
